---- MODULE Spec2Model ----
(***************************************************************************)
(* Model of src/api/chat.ts: the request pipeline `handler` (origin        *)
(* policy, configuration guard, body decoding, validation, completion)     *)
(* served for one request under one process environment.                   *)
(*                                                                         *)
(* Strings are sequences of atoms (one-character strings, or opaque        *)
(* tokens for header values).  An optional string is a record              *)
(* [def, val]: Undefined is JavaScript's undefined.  User text is a        *)
(* run-length encoded string over whitespace ("ws") and other ("ch")       *)
(* characters, so that trim, length and slice are computed exactly on      *)
(* texts as long as the 8000-character limit.                              *)
(***************************************************************************)
EXTENDS Naturals, Sequences, FiniteSets

VARIABLES env, req, pc, allowedOrigins, origin, allowMock, hasKey,
          userText, content, err, res, upstreamCalls, mockReplies, trace,
          prior, conns

vars == <<env, req, pc, allowedOrigins, origin, allowMock, hasKey,
          userText, content, err, res, upstreamCalls, mockReplies, trace,
          prior, conns>>

(* ------------------------------ bounds --------------------------------- *)

MaxEnvLen == 3

MaxRuns == 3

MaxPairEnvLen == 2

MaxChunks == 2

(* ------------------------- program constants --------------------------- *)

MaxTextLen == 8000

PreviewLen == 180

MaxBytes == 1000000

(* --------------------------- optional strings -------------------------- *)

Undefined == [def |-> FALSE, val |-> <<>>]

Str(s) == [def |-> TRUE, val |-> s]

Truthy(o) == o.def /\ o.val # <<>>

SeqsUpTo(S, n) == UNION {[1..k -> S] : k \in 0..n}

(* ------------------------- parseAllowedOrigins ------------------------- *)

IsSpace(c) == c = " "

RECURSIVE TrimLeft(_)
TrimLeft(s) ==
    IF s # <<>> /\ IsSpace(Head(s)) THEN TrimLeft(Tail(s)) ELSE s

RECURSIVE TrimRight(_)
TrimRight(s) ==
    IF s # <<>> /\ IsSpace(s[Len(s)])
    THEN TrimRight(SubSeq(s, 1, Len(s) - 1))
    ELSE s

TrimStr(s) == TrimRight(TrimLeft(s))

RECURSIVE SplitAcc(_, _, _)
SplitAcc(s, sep, cur) ==
    IF s = <<>> THEN <<cur>>
    ELSE IF Head(s) = sep THEN <<cur>> \o SplitAcc(Tail(s), sep, <<>>)
    ELSE SplitAcc(Tail(s), sep, Append(cur, Head(s)))

Split(s, sep) == SplitAcc(s, sep, <<>>)

MapTrim(parts) == [i \in 1..Len(parts) |-> TrimStr(parts[i])]

FilterNonEmpty(parts) == SelectSeq(parts, LAMBDA p : p # <<>>)

(* Mutant: the empty entries are filtered before the entries are trimmed. *)
parseAllowedOriginsFilterFirst(allowedOriginsEnv) ==
    LET s == IF Truthy(allowedOriginsEnv) THEN allowedOriginsEnv.val ELSE <<>>
    IN  MapTrim(FilterNonEmpty(Split(s, ",")))

parseAllowedOrigins(allowedOriginsEnv) ==
    LET s == IF Truthy(allowedOriginsEnv) THEN allowedOriginsEnv.val ELSE <<>>
    IN  FilterNonEmpty(MapTrim(Split(s, ",")))

(* ----------------------------- origin policy --------------------------- *)

Includes(arr, x) == \E i \in 1..Len(arr) : arr[i] = x

(* Mutant: a request without an Origin header is let through. *)
isOriginAllowedNoHeader(o, allowed) ==
    IF Includes(allowed, <<"*">>) THEN TRUE
    ELSE IF ~Truthy(o) THEN TRUE
    ELSE Includes(allowed, o.val)

isOriginAllowed(o, allowed) ==
    IF Includes(allowed, <<"*">>) THEN TRUE
    ELSE IF ~Truthy(o) THEN FALSE
    ELSE Includes(allowed, o.val)

HeaderNames ==
    {"Access-Control-Allow-Origin", "Vary", "Access-Control-Allow-Methods",
     "Access-Control-Allow-Headers", "Access-Control-Max-Age",
     "Content-Type", "Cache-Control"}

setHeader(r, name, value) ==
    [r EXCEPT !.headers = [@ EXCEPT ![name] = Str(value)]]

(* Mutant: under the wildcard the request's origin is echoed when present. *)
applyCorsEcho(o, allowed, r) ==
    LET r1 == IF Includes(allowed, <<"*">>)
              THEN setHeader(r, "Access-Control-Allow-Origin",
                             IF Truthy(o) THEN o.val ELSE <<"*">>)
              ELSE IF Truthy(o) /\ Includes(allowed, o.val)
              THEN setHeader(r, "Access-Control-Allow-Origin", o.val)
              ELSE r
        r2 == setHeader(r1, "Vary", <<"Origin">>)
        r3 == setHeader(r2, "Access-Control-Allow-Methods", <<"POST, OPTIONS">>)
        r4 == setHeader(r3, "Access-Control-Allow-Headers", <<"Content-Type">>)
    IN  setHeader(r4, "Access-Control-Max-Age", <<"86400">>)

(* Mutant: a request whose origin is not allowed gets no header at all. *)
applyCorsEarlyReturn(o, allowed, r) ==
    IF ~isOriginAllowed(o, allowed) THEN r
    ELSE LET r1 == setHeader(r, "Access-Control-Allow-Origin",
                             IF Includes(allowed, <<"*">>) THEN <<"*">> ELSE o.val)
             r2 == setHeader(r1, "Vary", <<"Origin">>)
             r3 == setHeader(r2, "Access-Control-Allow-Methods", <<"POST, OPTIONS">>)
             r4 == setHeader(r3, "Access-Control-Allow-Headers", <<"Content-Type">>)
         IN  setHeader(r4, "Access-Control-Max-Age", <<"86400">>)

(* Mutant: a present origin is echoed whether or not it is listed. *)
applyCorsAnyOrigin(o, allowed, r) ==
    LET r1 == IF Includes(allowed, <<"*">>)
              THEN setHeader(r, "Access-Control-Allow-Origin", <<"*">>)
              ELSE IF Truthy(o)
              THEN setHeader(r, "Access-Control-Allow-Origin", o.val)
              ELSE r
        r2 == setHeader(r1, "Vary", <<"Origin">>)
        r3 == setHeader(r2, "Access-Control-Allow-Methods", <<"POST, OPTIONS">>)
        r4 == setHeader(r3, "Access-Control-Allow-Headers", <<"Content-Type">>)
    IN  setHeader(r4, "Access-Control-Max-Age", <<"86400">>)

applyCors(o, allowed, r) ==
    LET r1 == IF Includes(allowed, <<"*">>)
              THEN setHeader(r, "Access-Control-Allow-Origin", <<"*">>)
              ELSE IF Truthy(o) /\ isOriginAllowed(o, allowed)
              THEN setHeader(r, "Access-Control-Allow-Origin", o.val)
              ELSE r
        r2 == setHeader(r1, "Vary", <<"Origin">>)
        r3 == setHeader(r2, "Access-Control-Allow-Methods", <<"POST, OPTIONS">>)
        r4 == setHeader(r3, "Access-Control-Allow-Headers", <<"Content-Type">>)
    IN  setHeader(r4, "Access-Control-Max-Age", <<"86400">>)

(* ------------------- user text (run-length encoded) -------------------- *)

WsLens == {1, 2}

ChLens == {1, PreviewLen, PreviewLen + 1, MaxTextLen, MaxTextLen + 1}

Runs == [k : {"ws"}, n : WsLens] \cup [k : {"ch"}, n : ChLens]

Alternating(t) == \A i \in 1..(Len(t) - 1) : t[i].k # t[i + 1].k

Texts == {t \in SeqsUpTo(Runs, MaxRuns) : Alternating(t)}

RECURSIVE TextLen(_)
TextLen(t) == IF t = <<>> THEN 0 ELSE Head(t).n + TextLen(Tail(t))

Concat(a, b) ==
    IF a = <<>> THEN b
    ELSE IF b = <<>> THEN a
    ELSE IF a[Len(a)].k = Head(b).k
    THEN SubSeq(a, 1, Len(a) - 1)
         \o <<[k |-> Head(b).k, n |-> a[Len(a)].n + Head(b).n]>>
         \o Tail(b)
    ELSE a \o b

trim(t) ==
    LET l == IF t # <<>> /\ Head(t).k = "ws" THEN Tail(t) ELSE t
    IN  IF l # <<>> /\ l[Len(l)].k = "ws" THEN SubSeq(l, 1, Len(l) - 1) ELSE l

RECURSIVE slice(_, _)
slice(t, n) ==
    IF t = <<>> \/ n = 0 THEN <<>>
    ELSE IF Head(t).n <= n THEN <<Head(t)>> \o slice(Tail(t), n - Head(t).n)
    ELSE <<[k |-> Head(t).k, n |-> n]>>

collapseWhitespace(t) ==
    [i \in 1..Len(t) |-> IF t[i].k = "ws" THEN [k |-> "ws", n |-> 1] ELSE t[i]]

(* ------------------------------ request body --------------------------- *)
(* A string body is a document: "plain" is the text itself (letters x and  *)
(* spaces, never valid JSON), "obj" is {"text":"<text>"}, "objNoText" is   *)
(* {}, "objNumText" is {"text":1}, "null" is null.  A non-string body is   *)
(* a value the platform already parsed, or undefined.                      *)

StringBodies ==
    [t : {"string"}, d : {"plain", "obj"}, text : Texts]
    \cup [t : {"string"}, d : {"objNoText", "objNumText", "null"}, text : {<<>>}]

ObjectBodies ==
    [t : {"object"}, d : {"obj"}, text : Texts]
    \cup [t : {"object"}, d : {"objNoText", "objNumText"}, text : {<<>>}]

UndefinedBody == [t |-> "undefined", d |-> "none", text |-> <<>>]

Bodies == StringBodies \cup ObjectBodies \cup {UndefinedBody}

Ch(n) == <<[k |-> "ch", n |-> n]>>

RawChars(b) ==
    CASE b.d = "plain" -> b.text
      [] b.d = "obj" -> Concat(Concat(Ch(9), b.text), Ch(2))
      [] b.d = "objNoText" -> Ch(2)
      [] b.d = "objNumText" -> Ch(10)
      [] OTHER -> Ch(4)

SyntaxError == [status |-> [def |-> FALSE, val |-> 0], message |-> "Unexpected token in JSON"]

NoError == [status |-> [def |-> FALSE, val |-> 0], message |-> ""]

(* JSON.parse of a string body: the parsed value, or a thrown SyntaxError. *)
JSONparse(b) ==
    IF b.d = "plain" THEN [threw |-> TRUE, d |-> "none", text |-> <<>>]
    ELSE [threw |-> FALSE, d |-> b.d, text |-> b.text]

(* typeof body?.text === 'string' ? body.text : '' *)
TextField(v) == IF v.d = "obj" THEN v.text ELSE <<>>

(* typeof rawBody === 'string' ? JSON.parse(rawBody) : rawBody || {} *)
ParseBody(b) ==
    IF b.t = "string" THEN JSONparse(b)
    ELSE IF b.t = "object" THEN [threw |-> FALSE, d |-> b.d, text |-> b.text]
    ELSE [threw |-> FALSE, d |-> "objNoText", text |-> <<>>]

toLowerCase(tok) ==
    CASE tok = "TEXT/PLAIN" -> "text/plain"
      [] tok = "Application/JSON" -> "application/json"
      [] OTHER -> tok

LowerAll(s) == [i \in 1..Len(s) |-> toLowerCase(s[i])]

startsWith(s, tok) == s # <<>> /\ Head(s) = tok

(* Mutant: the fallback branch parses without its own try/catch. *)
decodeNoBestEffort(contentTypeHeader, rawBody) ==
    LET contentType == LowerAll(IF Truthy(contentTypeHeader)
                                THEN contentTypeHeader.val ELSE <<>>)
        parsed == ParseBody(rawBody)
    IN  IF startsWith(contentType, "text/plain")
        THEN [threw |-> FALSE,
              text |-> IF rawBody.t = "string" THEN RawChars(rawBody) ELSE <<>>]
        ELSE IF parsed.threw
             THEN [threw |-> TRUE, text |-> <<>>]
             ELSE [threw |-> FALSE, text |-> TextField(parsed)]

(* Lines 61-78 of handler: the text extracted from the body, or a throw.   *)
decode(contentTypeHeader, rawBody) ==
    LET contentType == LowerAll(IF Truthy(contentTypeHeader)
                                THEN contentTypeHeader.val ELSE <<>>)
        parsed == ParseBody(rawBody)
    IN  IF startsWith(contentType, "text/plain")
        THEN [threw |-> FALSE,
              text |-> IF rawBody.t = "string" THEN RawChars(rawBody) ELSE <<>>]
        ELSE IF Includes(contentType, "application/json")
        THEN IF parsed.threw
             THEN [threw |-> TRUE, text |-> <<>>]
             ELSE [threw |-> FALSE, text |-> TextField(parsed)]
        ELSE IF parsed.threw
             THEN [threw |-> FALSE, text |-> <<>>]
             ELSE [threw |-> FALSE, text |-> TextField(parsed)]

ContentTypes ==
    {Undefined, Str(<<>>), Str(<<"text/plain">>),
     Str(<<"TEXT/PLAIN", "; charset=utf-8">>), Str(<<"application/json">>),
     Str(<<"Application/JSON", "; charset=utf-8">>),
     Str(<<"multipart/related; type=", "application/json">>),
     Str(<<"application/xml">>)}

(* ------------------------------- response ------------------------------ *)

NoContent == [kind |-> "none", head |-> "", text |-> <<>>, tail |-> <<>>]

NoBody == [kind |-> "none", error |-> "", content |-> NoContent]

NewResponse ==
    [headers |-> [h \in HeaderNames |-> Undefined],
     statusCode |-> 200, body |-> NoBody, writes |-> 0]

status(r, code) == [r EXCEPT !.statusCode = code]

(* json: Content-Type defaults to application/json, then the body is sent. *)
json(r, obj) ==
    LET r1 == IF ~Truthy(r.headers["Content-Type"])
              THEN setHeader(r, "Content-Type", <<"application/json">>)
              ELSE r
    IN  [r1 EXCEPT !.body = obj, !.writes = @ + 1]

end(r) ==
    [r EXCEPT !.body = [kind |-> "empty", error |-> "", content |-> NoContent],
              !.writes = @ + 1]

ErrorBody(msg) == [kind |-> "error", error |-> msg, content |-> NoContent]

ContentBody(c) == [kind |-> "content", error |-> "", content |-> c]

(* ------------------------------ completion ----------------------------- *)

(* A content string is head, then text, then the atoms of tail. *)
Ellipsis == "U+2026"

Quote == "\""

MockPrefix == "Mocked response (DEV_ALLOW_MOCK=1). You said: \""

(* Mutant: the marker is appended from 180 characters on (>= instead of >). *)
mockContentOffByOne(text) ==
    [kind |-> "mock",
     head |-> MockPrefix,
     text |-> trim(collapseWhitespace(slice(text, PreviewLen))),
     tail |-> IF TextLen(text) >= PreviewLen THEN <<Ellipsis, Quote>> ELSE <<Quote>>]

(* Lines 96-97: the echo of the first 180 characters, whitespace collapsed, *)
(* then the marker when the text is longer, then the closing quote.         *)
mockContent(text) ==
    [kind |-> "mock",
     head |-> MockPrefix,
     text |-> trim(collapseWhitespace(slice(text, PreviewLen))),
     tail |-> IF TextLen(text) > PreviewLen THEN <<Ellipsis, Quote>> ELSE <<Quote>>]

(* What the provider may answer: a first choice with content, a first      *)
(* choice whose content is null, or no choice at all.                      *)
UpstreamCompletions ==
    {[choices |-> 1, hasContent |-> TRUE, text |-> Ch(1)],
     [choices |-> 1, hasContent |-> FALSE, text |-> <<>>],
     [choices |-> 0, hasContent |-> FALSE, text |-> <<>>]}

(* Lines 109-110: completion.choices?.[0]?.message?.content ?? '' *)
liveContent(completion) ==
    [kind |-> "live",
     head |-> "",
     text |-> IF completion.choices > 0 /\ completion.hasContent
              THEN completion.text ELSE <<>>,
     tail |-> <<>>]

(* What the provider call may throw: an API error with a status, an error  *)
(* without one, an error with an empty message.                            *)
UpstreamErrors ==
    {[status |-> [def |-> TRUE, val |-> 429], message |-> "Rate limit exceeded"],
     [status |-> [def |-> TRUE, val |-> 403], message |-> "Country not supported"],
     [status |-> [def |-> FALSE, val |-> 0], message |-> "Connection error"],
     [status |-> [def |-> FALSE, val |-> 0], message |-> ""]}

(* ------------------ handler as one synchronous run --------------------- *)
(* The local harness awaits handler(reqLike, resLike): handler runs without *)
(* interruption up to its only await (the provider call, line 100) and,     *)
(* when the call settles, to its end.                                       *)

HandlerDone(r) ==
    [pc |-> "done", res |-> r, userText |-> <<>>, upstreamCalls |-> 0, mockReplies |-> 0]

(* Lines 113-115. *)
respond(r, c) ==
    json(status(setHeader(setHeader(r, "Content-Type", <<"application/json">>),
                          "Cache-Control", <<"no-store">>), 200),
         ContentBody(c))

(* Lines 116-121. *)
catchAll(r, e) ==
    json(status(r, IF e.status.def THEN e.status.val ELSE 500),
         ErrorBody(IF e.message # "" THEN e.message ELSE "Unknown error"))

(* Lines 33-107, up to the await or to the response. *)
handlerRun(e, rq, r) ==
    LET allowed == parseAllowedOrigins(e.ALLOWED_ORIGINS)
        r0 == applyCors(rq.origin, allowed, r)
        mock == e.DEV_ALLOW_MOCK = Str(<<"1">>)
        key == Truthy(e.OPENAI_API_KEY)
        d == decode(rq.contentType, rq.body)
        text == trim(d.text)
    IN  IF rq.method = "OPTIONS" THEN HandlerDone(end(status(r0, 204)))
        ELSE IF Len(allowed) = 0
        THEN HandlerDone(json(status(r0, 500),
                 ErrorBody("Server misconfiguration: ALLOWED_ORIGINS is not set")))
        ELSE IF ~isOriginAllowed(rq.origin, allowed)
        THEN HandlerDone(json(status(r0, 403), ErrorBody("Origin not allowed")))
        ELSE IF ~key /\ ~mock
        THEN HandlerDone(json(status(r0, 500),
                 ErrorBody("Server misconfiguration: OPENAI_API_KEY is not set")))
        ELSE IF d.threw THEN HandlerDone(catchAll(r0, SyntaxError))
        ELSE IF text = <<>>
        THEN HandlerDone(json(status(r0, 400),
                 ErrorBody("Invalid request: text is required")))
        ELSE IF TextLen(text) > MaxTextLen
        THEN HandlerDone(json(status(r0, 413),
                 ErrorBody("Payload too large: text exceeds 8000 characters")))
        ELSE IF mock /\ ~key
        THEN [pc |-> "done", res |-> respond(r0, mockContent(text)),
              userText |-> text, upstreamCalls |-> 0, mockReplies |-> 1]
        ELSE [pc |-> "await", res |-> r0,
              userText |-> text, upstreamCalls |-> 1, mockReplies |-> 0]

(* How the awaited provider call settles. *)
UpstreamOutcomes ==
    [ok : {TRUE}, completion : UpstreamCompletions, error : {NoError}]
    \cup [ok : {FALSE},
          completion : {[choices |-> 0, hasContent |-> FALSE, text |-> <<>>]},
          error : UpstreamErrors]

(* Lines 109-121, after the await. *)
handlerSettle(r, outcome) ==
    IF outcome.ok THEN respond(r, liveContent(outcome.completion))
    ELSE catchAll(r, outcome.error)

(* ----------------------------- local harness --------------------------- *)

Conns == {1, 2}

(* Lines 185-187: the development default of the allow-list. *)
devDefaults(e) ==
    IF ~Truthy(e.ALLOWED_ORIGINS)
    THEN [e EXCEPT !.ALLOWED_ORIGINS = Str(<<"*">>)]
    ELSE e

PayloadTooLarge ==
    [status |-> [def |-> TRUE, val |-> 413], message |-> "Payload too large"]

(* A socket error carries no status field. *)
SocketErrors ==
    {[status |-> [def |-> FALSE, val |-> 0], message |-> "aborted"]}

Pending == [state |-> "pending", value |-> <<>>, reason |-> NoError]

resolve(p, v) ==
    IF p.state = "pending"
    THEN [state |-> "resolved", value |-> v, reason |-> NoError]
    ELSE p

reject(p, e) ==
    IF p.state = "pending"
    THEN [state |-> "rejected", value |-> <<>>, reason |-> e]
    ELSE p

(* res.end(text) on the raw ServerResponse. *)
endText(r, msg) ==
    [r EXCEPT !.body = [kind |-> "text", error |-> msg, content |-> NoContent],
              !.writes = @ + 1]

RECURSIVE ConcatAll(_)
ConcatAll(chunks) ==
    IF chunks = <<>> THEN <<>>
    ELSE Concat(Head(chunks), ConcatAll(Tail(chunks)))

RECURSIVE SumLen(_)
SumLen(chunks) ==
    IF chunks = <<>> THEN 0 ELSE TextLen(Head(chunks)) + SumLen(Tail(chunks))

NoRun == [userText |-> <<>>, upstreamCalls |-> 0, mockReplies |-> 0]

NewConn(url, method, o, contentType) ==
    [url |-> url, method |-> method, origin |-> o, contentType |-> contentType,
     stage |-> "new", listening |-> FALSE,
     total |-> 0, chunks |-> <<>>, nData |-> 0,
     ended |-> FALSE, errored |-> FALSE, destroyed |-> FALSE,
     promise |-> Pending, res |-> NewResponse,
     handlerCalls |-> 0, handlerBody |-> <<>>, run |-> NoRun]

(* Mutant: the body is read before the path is checked. *)
acceptStepReadFirst(cs) ==
    IF ~(cs.url.def /\ startsWith(cs.url.val, "/api/chat"))
    THEN [cs EXCEPT !.listening = TRUE,
                    !.res = endText(status(cs.res, 404), "Not Found"),
                    !.stage = "finished"]
    ELSE [cs EXCEPT !.listening = TRUE, !.stage = "awaitBody"]

(* Lines 190-198: the 404 for other paths, else readRequestBody attaches   *)
(* its listeners and the callback awaits the body.                         *)
acceptStep(cs) ==
    IF ~(cs.url.def /\ startsWith(cs.url.val, "/api/chat"))
    THEN [cs EXCEPT !.res = endText(status(cs.res, 404), "Not Found"),
                    !.stage = "finished"]
    ELSE [cs EXCEPT !.listening = TRUE, !.stage = "awaitBody"]

(* Mutant: the ceiling is off by one (>= instead of >). *)
dataStepOffByOne(cs, chunk) ==
    LET total == cs.total + TextLen(chunk)
    IN  IF total >= MaxBytes
        THEN [cs EXCEPT !.total = total, !.nData = @ + 1,
                        !.promise = reject(@, PayloadTooLarge),
                        !.destroyed = TRUE]
        ELSE [cs EXCEPT !.total = total, !.nData = @ + 1,
                        !.chunks = Append(@, chunk)]

(* Lines 137-145: the 'data' listener. *)
dataStep(cs, chunk) ==
    LET total == cs.total + TextLen(chunk)
    IN  IF total > MaxBytes
        THEN [cs EXCEPT !.total = total, !.nData = @ + 1,
                        !.promise = reject(@, PayloadTooLarge),
                        !.destroyed = TRUE]
        ELSE [cs EXCEPT !.total = total, !.nData = @ + 1,
                        !.chunks = Append(@, chunk)]

(* Line 146: the 'end' listener. *)
endStep(cs) ==
    [cs EXCEPT !.ended = TRUE, !.promise = resolve(@, ConcatAll(cs.chunks))]

(* Mutant: the 'error' listener also answers the client itself. *)
errorStepAnswers(cs, e) ==
    [cs EXCEPT !.errored = TRUE,
               !.promise = reject(@, e),
               !.res = endText(status(@, 400), e.message)]

(* Line 147: the 'error' listener. *)
errorStep(cs, e) ==
    [cs EXCEPT !.errored = TRUE, !.promise = reject(@, e)]

(* Lines 198-204: the catch of the rejected read. *)
bodyRejectedStep(cs) ==
    LET e == cs.promise.reason
        code == IF e.status.def THEN e.status.val ELSE 400
    IN  [cs EXCEPT !.res = endText(status(cs.res, code), e.message),
                   !.stage = "finished"]

reqLike(cs, body) ==
    [method |-> cs.method, origin |-> cs.origin, contentType |-> cs.contentType,
     body |-> [t |-> "string", d |-> "plain", text |-> body]]

(* Lines 204-208: the body was read, handler is invoked. *)
bodyResolvedStep(cs, e) ==
    LET h == handlerRun(e, reqLike(cs, cs.promise.value), cs.res)
    IN  [cs EXCEPT !.res = h.res,
                   !.handlerCalls = @ + 1,
                   !.handlerBody = cs.promise.value,
                   !.run = [userText |-> h.userText,
                            upstreamCalls |-> h.upstreamCalls,
                            mockReplies |-> h.mockReplies],
                   !.stage = IF h.pc = "done" THEN "finished" ELSE "awaitUpstream"]

(* Line 208: the awaited handler finishes after the provider call settles. *)
upstreamStep(cs, outcome) ==
    [cs EXCEPT !.res = handlerSettle(cs.res, outcome), !.stage = "finished"]

(* ------------------------------- inputs -------------------------------- *)

EnvChars == {",", " ", "a", "*"}

EnvStrings == {Undefined} \cup {Str(s) : s \in SeqsUpTo(EnvChars, MaxEnvLen)}

Origins ==
    {Undefined, Str(<<>>), Str(<<"a">>), Str(<<"A">>), Str(<<"a", "a">>), Str(<<"*">>)}

Methods == {"OPTIONS", "POST", "GET"}

ProbeBodies ==
    {[t |-> "string", d |-> "obj", text |-> Ch(1)],
     [t |-> "string", d |-> "plain", text |-> Ch(1)]}

KeyValues == {Undefined, Str(<<>>), Str(<<"sk">>)}

MockValues == {Undefined, Str(<<"0">>), Str(<<"1">>)}

NoPrior ==
    [done |-> FALSE,
     env |-> [ALLOWED_ORIGINS |-> Undefined, OPENAI_API_KEY |-> Undefined,
              DEV_ALLOW_MOCK |-> Undefined],
     res |-> NewResponse]

InitLocals ==
    /\ pc = "start"
    /\ allowedOrigins = <<>>
    /\ origin = Undefined
    /\ allowMock = FALSE
    /\ hasKey = FALSE
    /\ userText = <<>>
    /\ content = NoContent
    /\ err = NoError
    /\ res = NewResponse
    /\ upstreamCalls = 0
    /\ mockReplies = 0
    /\ trace = <<>>
    /\ prior = NoPrior

NoConns ==
    [c \in Conns |-> NewConn(Undefined, "GET", Undefined, Undefined)]

(* Every allow-list string, origin and method, with a few bodies.          *)
InitConfig ==
    /\ env \in [ALLOWED_ORIGINS : EnvStrings,
                OPENAI_API_KEY : KeyValues,
                DEV_ALLOW_MOCK : MockValues]
    /\ req \in [method : Methods, origin : Origins,
                contentType : {Str(<<"application/json">>)},
                body : ProbeBodies]

(* Every content type and body, under an allow-list that admits the origin. *)
InitRequest ==
    /\ env \in [ALLOWED_ORIGINS : {Str(<<"*">>)},
                OPENAI_API_KEY : KeyValues,
                DEV_ALLOW_MOCK : MockValues]
    /\ req \in [method : {"POST"}, origin : {Str(<<"a">>)},
                contentType : ContentTypes, body : Bodies]

Init == InitLocals /\ conns = NoConns /\ (InitConfig \/ InitRequest)

(* ------------------------------- handler ------------------------------- *)

(* Lines 33-35: parse the allow-list, read the origin, apply CORS headers. *)
ApplyCors ==
    /\ pc = "start"
    /\ allowedOrigins' = parseAllowedOrigins(env.ALLOWED_ORIGINS)
    /\ origin' = req.origin
    /\ res' = applyCors(req.origin, parseAllowedOrigins(env.ALLOWED_ORIGINS), res)
    /\ trace' = Append(trace, "cors")
    /\ pc' = "method"
    /\ UNCHANGED <<conns, prior, env, req, allowMock, hasKey, userText, content, err,
                   upstreamCalls, mockReplies>>

(* Mutant: the allow-list is checked before the preflight short-circuit. *)
PreflightAfterAllowList ==
    /\ pc = "method"
    /\ trace' = Append(trace, "method")
    /\ IF Len(allowedOrigins) = 0
       THEN /\ res' = json(status(res, 500),
                       ErrorBody("Server misconfiguration: ALLOWED_ORIGINS is not set"))
            /\ pc' = "done"
       ELSE IF req.method = "OPTIONS"
       THEN /\ res' = end(status(res, 204))
            /\ pc' = "done"
       ELSE /\ res' = res
            /\ pc' = "allowlist"
    /\ UNCHANGED <<conns, prior, env, req, allowedOrigins, origin, allowMock, hasKey,
                   userText, content, err, upstreamCalls, mockReplies>>

(* Lines 37-40: preflight short-circuit. *)
Preflight ==
    /\ pc = "method"
    /\ trace' = Append(trace, "method")
    /\ IF req.method = "OPTIONS"
       THEN /\ res' = end(status(res, 204))
            /\ pc' = "done"
       ELSE /\ res' = res
            /\ pc' = "allowlist"
    /\ UNCHANGED <<conns, prior, env, req, allowedOrigins, origin, allowMock, hasKey,
                   userText, content, err, upstreamCalls, mockReplies>>

(* Lines 42-45: an empty allow-list is a server misconfiguration. *)
CheckAllowList ==
    /\ pc = "allowlist"
    /\ trace' = Append(trace, "allowlist")
    /\ IF Len(allowedOrigins) = 0
       THEN /\ res' = json(status(res, 500),
                       ErrorBody("Server misconfiguration: ALLOWED_ORIGINS is not set"))
            /\ pc' = "done"
       ELSE /\ res' = res
            /\ pc' = "origin"
    /\ UNCHANGED <<conns, prior, env, req, allowedOrigins, origin, allowMock, hasKey,
                   userText, content, err, upstreamCalls, mockReplies>>

(* Mutant: the credential is checked before the origin is enforced. *)
EnforceOriginAfterCredential ==
    /\ pc = "origin"
    /\ trace' = Append(trace, "origin")
    /\ IF ~Truthy(env.OPENAI_API_KEY) /\ env.DEV_ALLOW_MOCK # Str(<<"1">>)
       THEN /\ res' = json(status(res, 500),
                       ErrorBody("Server misconfiguration: OPENAI_API_KEY is not set"))
            /\ pc' = "done"
       ELSE IF ~isOriginAllowed(origin, allowedOrigins)
       THEN /\ res' = json(status(res, 403), ErrorBody("Origin not allowed"))
            /\ pc' = "done"
       ELSE /\ res' = res
            /\ pc' = "credential"
    /\ UNCHANGED <<conns, prior, env, req, allowedOrigins, origin, allowMock, hasKey,
                   userText, content, err, upstreamCalls, mockReplies>>

(* Lines 47-51: origin enforcement. *)
EnforceOrigin ==
    /\ pc = "origin"
    /\ trace' = Append(trace, "origin")
    /\ IF ~isOriginAllowed(origin, allowedOrigins)
       THEN /\ res' = json(status(res, 403), ErrorBody("Origin not allowed"))
            /\ pc' = "done"
       ELSE /\ res' = res
            /\ pc' = "credential"
    /\ UNCHANGED <<conns, prior, env, req, allowedOrigins, origin, allowMock, hasKey,
                   userText, content, err, upstreamCalls, mockReplies>>

(* Mutant: any non-empty DEV_ALLOW_MOCK enables mock mode. *)
CheckCredentialAnyMock ==
    /\ pc = "credential"
    /\ trace' = Append(trace, "credential")
    /\ allowMock' = Truthy(env.DEV_ALLOW_MOCK)
    /\ hasKey' = Truthy(env.OPENAI_API_KEY)
    /\ IF ~hasKey' /\ ~allowMock'
       THEN /\ res' = json(status(res, 500),
                       ErrorBody("Server misconfiguration: OPENAI_API_KEY is not set"))
            /\ pc' = "done"
       ELSE /\ res' = res
            /\ pc' = "decode"
    /\ UNCHANGED <<conns, prior, env, req, allowedOrigins, origin, userText, content, err,
                   upstreamCalls, mockReplies>>

(* Lines 53-58: credential or mock mode must be available. *)
CheckCredential ==
    /\ pc = "credential"
    /\ trace' = Append(trace, "credential")
    /\ allowMock' = (env.DEV_ALLOW_MOCK = Str(<<"1">>))
    /\ hasKey' = Truthy(env.OPENAI_API_KEY)
    /\ IF ~hasKey' /\ ~allowMock'
       THEN /\ res' = json(status(res, 500),
                       ErrorBody("Server misconfiguration: OPENAI_API_KEY is not set"))
            /\ pc' = "done"
       ELSE /\ res' = res
            /\ pc' = "decode"
    /\ UNCHANGED <<conns, prior, env, req, allowedOrigins, origin, userText, content, err,
                   upstreamCalls, mockReplies>>

(* Lines 60-80: content-type-aware extraction, then trim. *)
DecodeBody ==
    /\ pc = "decode"
    /\ trace' = Append(trace, "decode")
    /\ LET d == decode(req.contentType, req.body)
       IN  IF d.threw
           THEN /\ err' = SyntaxError
                /\ userText' = userText
                /\ pc' = "catch"
           ELSE /\ err' = err
                /\ userText' = trim(d.text)
                /\ pc' = "validate"
    /\ UNCHANGED <<conns, prior, env, req, allowedOrigins, origin, allowMock, hasKey,
                   content, res, upstreamCalls, mockReplies>>

(* Mutant: the size limit is off by one (>= instead of >). *)
ValidateOffByOne ==
    /\ pc = "validate"
    /\ trace' = Append(trace, "validate")
    /\ IF userText = <<>>
       THEN /\ res' = json(status(res, 400),
                       ErrorBody("Invalid request: text is required"))
            /\ pc' = "done"
       ELSE IF TextLen(userText) >= MaxTextLen
       THEN /\ res' = json(status(res, 413),
                       ErrorBody("Payload too large: text exceeds 8000 characters"))
            /\ pc' = "done"
       ELSE /\ res' = res
            /\ pc' = "complete"
    /\ UNCHANGED <<conns, prior, env, req, allowedOrigins, origin, allowMock, hasKey,
                   userText, content, err, upstreamCalls, mockReplies>>

(* Lines 83-90: non-empty, at most 8000 characters. *)
Validate ==
    /\ pc = "validate"
    /\ trace' = Append(trace, "validate")
    /\ IF userText = <<>>
       THEN /\ res' = json(status(res, 400),
                       ErrorBody("Invalid request: text is required"))
            /\ pc' = "done"
       ELSE IF TextLen(userText) > MaxTextLen
       THEN /\ res' = json(status(res, 413),
                       ErrorBody("Payload too large: text exceeds 8000 characters"))
            /\ pc' = "done"
       ELSE /\ res' = res
            /\ pc' = "complete"
    /\ UNCHANGED <<conns, prior, env, req, allowedOrigins, origin, allowMock, hasKey,
                   userText, content, err, upstreamCalls, mockReplies>>

(* Mutant: mock mode wins over a configured credential. *)
InvokeCompletionMockFirst ==
    /\ pc = "complete"
    /\ trace' = Append(trace, "complete")
    /\ IF allowMock
       THEN /\ content' = mockContent(userText)
            /\ mockReplies' = mockReplies + 1
            /\ upstreamCalls' = upstreamCalls
            /\ pc' = "respond"
       ELSE /\ content' = content
            /\ mockReplies' = mockReplies
            /\ upstreamCalls' = upstreamCalls + 1
            /\ pc' = "await"
    /\ UNCHANGED <<conns, prior, env, req, allowedOrigins, origin, allowMock, hasKey,
                   userText, err, res>>

(* Lines 94-107: the mock echo, or the call to the provider. *)
InvokeCompletion ==
    /\ pc = "complete"
    /\ trace' = Append(trace, "complete")
    /\ IF allowMock /\ ~hasKey
       THEN /\ content' = mockContent(userText)
            /\ mockReplies' = mockReplies + 1
            /\ upstreamCalls' = upstreamCalls
            /\ pc' = "respond"
       ELSE /\ content' = content
            /\ mockReplies' = mockReplies
            /\ upstreamCalls' = upstreamCalls + 1
            /\ pc' = "await"
    /\ UNCHANGED <<conns, prior, env, req, allowedOrigins, origin, allowMock, hasKey,
                   userText, err, res>>

(* Lines 100-110: the awaited call resolves. *)
UpstreamReturns ==
    /\ pc = "await"
    /\ \E completion \in UpstreamCompletions : content' = liveContent(completion)
    /\ trace' = Append(trace, "returned")
    /\ pc' = "respond"
    /\ UNCHANGED <<conns, prior, env, req, allowedOrigins, origin, allowMock, hasKey,
                   userText, err, res, upstreamCalls, mockReplies>>

(* Line 100: the awaited call rejects. *)
UpstreamThrows ==
    /\ pc = "await"
    /\ \E e \in UpstreamErrors : err' = e
    /\ trace' = Append(trace, "threw")
    /\ pc' = "catch"
    /\ UNCHANGED <<conns, prior, env, req, allowedOrigins, origin, allowMock, hasKey,
                   userText, content, res, upstreamCalls, mockReplies>>

(* Mutant: the success response leaves Cache-Control unset. *)
RespondCacheable ==
    /\ pc = "respond"
    /\ trace' = Append(trace, "respond")
    /\ res' = json(status(setHeader(res, "Content-Type", <<"application/json">>), 200),
                   ContentBody(content))
    /\ pc' = "done"
    /\ UNCHANGED <<conns, prior, env, req, allowedOrigins, origin, allowMock, hasKey,
                   userText, content, err, upstreamCalls, mockReplies>>

(* Lines 113-115: the success response. *)
Respond ==
    /\ pc = "respond"
    /\ trace' = Append(trace, "respond")
    /\ res' = json(status(setHeader(setHeader(res, "Content-Type", <<"application/json">>),
                                    "Cache-Control", <<"no-store">>), 200),
                   ContentBody(content))
    /\ pc' = "done"
    /\ UNCHANGED <<conns, prior, env, req, allowedOrigins, origin, allowMock, hasKey,
                   userText, content, err, upstreamCalls, mockReplies>>

(* Mutant: the catch-all ignores the error's status field. *)
CatchAllAlways500 ==
    /\ pc = "catch"
    /\ trace' = Append(trace, "catch")
    /\ res' = json(status(res, 500),
                   ErrorBody(IF err.message # "" THEN err.message ELSE "Unknown error"))
    /\ pc' = "done"
    /\ UNCHANGED <<conns, prior, env, req, allowedOrigins, origin, allowMock, hasKey,
                   userText, content, err, upstreamCalls, mockReplies>>

(* Lines 116-121: the catch-all error handler. *)
CatchAll ==
    /\ pc = "catch"
    /\ trace' = Append(trace, "catch")
    /\ res' = json(status(res, IF err.status.def THEN err.status.val ELSE 500),
                   ErrorBody(IF err.message # "" THEN err.message ELSE "Unknown error"))
    /\ pc' = "done"
    /\ UNCHANGED <<conns, prior, env, req, allowedOrigins, origin, allowMock, hasKey,
                   userText, content, err, upstreamCalls, mockReplies>>

Next ==
    \/ ApplyCors
    \/ Preflight
    \/ CheckAllowList
    \/ EnforceOrigin
    \/ CheckCredential
    \/ DecodeBody
    \/ Validate
    \/ InvokeCompletion
    \/ UpstreamReturns
    \/ UpstreamThrows
    \/ Respond
    \/ CatchAll

Spec == Init /\ [][Next]_vars

(* ----------------- the same request under a changed credential --------- *)
(* process.env is read on every invocation (lines 5, 53, 54): the platform *)
(* invokes handler again for the same request after the operator changed   *)
(* the credential or the mock flag.  The first response is kept in prior.  *)

Reinvoke ==
    /\ pc = "done"
    /\ ~prior.done
    /\ prior' = [done |-> TRUE, env |-> env, res |-> res]
    /\ \E k \in KeyValues, m \in MockValues :
          env' = [env EXCEPT !.OPENAI_API_KEY = k, !.DEV_ALLOW_MOCK = m]
    /\ pc' = "start"
    /\ allowedOrigins' = <<>>
    /\ origin' = Undefined
    /\ allowMock' = FALSE
    /\ hasKey' = FALSE
    /\ userText' = <<>>
    /\ content' = NoContent
    /\ err' = NoError
    /\ res' = NewResponse
    /\ upstreamCalls' = 0
    /\ mockReplies' = 0
    /\ trace' = <<>>
    /\ UNCHANGED <<req, conns>>

PairEnvStrings == {Undefined} \cup {Str(s) : s \in SeqsUpTo(EnvChars, MaxPairEnvLen)}

InitPair ==
    /\ InitLocals
    /\ conns = NoConns
    /\ env \in [ALLOWED_ORIGINS : PairEnvStrings,
                OPENAI_API_KEY : KeyValues,
                DEV_ALLOW_MOCK : MockValues]
    /\ req \in [method : Methods, origin : Origins,
                contentType : {Str(<<"application/json">>)},
                body : {[t |-> "string", d |-> "obj", text |-> Ch(1)]}]

NextPair == Next \/ Reinvoke

SpecPair == InitPair /\ [][NextPair]_vars

(* Two invocations for the same text body, over every text. *)
InitMock ==
    /\ InitLocals
    /\ conns = NoConns
    /\ env \in [ALLOWED_ORIGINS : {Str(<<"*">>)},
                OPENAI_API_KEY : KeyValues,
                DEV_ALLOW_MOCK : MockValues]
    /\ req \in [method : {"POST"}, origin : {Str(<<"a">>)},
                contentType : {Str(<<"text/plain">>), Str(<<"application/json">>)},
                body : [t : {"string"}, d : {"plain", "obj"}, text : Texts]]

SpecMock == InitMock /\ [][NextPair]_vars

(* ------------------------- local harness: server ----------------------- *)

HandlerVars ==
    <<env, req, pc, allowedOrigins, origin, allowMock, hasKey,
      userText, content, err, res, upstreamCalls, mockReplies, trace, prior>>

Chunks == {Ch(1), Ch(MaxBytes), Ch(MaxBytes + 1)}

(* Lines 189-198: the server callback starts for a new connection. *)
Accept(c) ==
    /\ conns[c].stage = "new"
    /\ conns' = [conns EXCEPT ![c] = acceptStep(@)]
    /\ UNCHANGED HandlerVars

RECURSIVE SumTotals(_)
SumTotals(S) ==
    IF S = {} THEN 0
    ELSE LET c == CHOOSE x \in S : TRUE
         IN  conns[c].total + SumTotals(S \ {c})

(* Mutant: the byte counter is one variable shared by all connections. *)
OnDataSharedTotal(c, anyOrder) ==
    /\ conns[c].listening
    /\ conns[c].nData < MaxChunks
    /\ anyOrder \/ (~conns[c].ended /\ ~conns[c].errored)
    /\ \E chunk \in Chunks :
          conns' = [conns EXCEPT
                      ![c] = dataStep([@ EXCEPT !.total = SumTotals(Conns)], chunk)]
    /\ UNCHANGED HandlerVars

(* A 'data' event.  The stream emits none after 'end' or 'error'; with     *)
(* anyOrder the events come in every order.                                *)
OnData(c, anyOrder) ==
    /\ conns[c].listening
    /\ conns[c].nData < MaxChunks
    /\ anyOrder \/ (~conns[c].ended /\ ~conns[c].errored)
    /\ \E chunk \in Chunks : conns' = [conns EXCEPT ![c] = dataStep(@, chunk)]
    /\ UNCHANGED HandlerVars

(* The 'end' event: not emitted by a destroyed or errored stream. *)
OnEnd(c, anyOrder) ==
    /\ conns[c].listening
    /\ ~conns[c].ended
    /\ anyOrder \/ (~conns[c].errored /\ ~conns[c].destroyed)
    /\ conns' = [conns EXCEPT ![c] = endStep(@)]
    /\ UNCHANGED HandlerVars

(* An 'error' event of the socket. *)
OnError(c) ==
    /\ conns[c].listening
    /\ ~conns[c].errored
    /\ \E e \in SocketErrors : conns' = [conns EXCEPT ![c] = errorStep(@, e)]
    /\ UNCHANGED HandlerVars

BodyRejected(c) ==
    /\ conns[c].stage = "awaitBody"
    /\ conns[c].promise.state = "rejected"
    /\ conns' = [conns EXCEPT ![c] = bodyRejectedStep(@)]
    /\ UNCHANGED HandlerVars

BodyResolved(c) ==
    /\ conns[c].stage = "awaitBody"
    /\ conns[c].promise.state = "resolved"
    /\ conns' = [conns EXCEPT ![c] = bodyResolvedStep(@, env)]
    /\ UNCHANGED HandlerVars

UpstreamSettles(c) ==
    /\ conns[c].stage = "awaitUpstream"
    /\ \E outcome \in UpstreamOutcomes :
          conns' = [conns EXCEPT ![c] = upstreamStep(@, outcome)]
    /\ UNCHANGED HandlerVars

Urls ==
    {Undefined, Str(<<"/">>), Str(<<"/api">>), Str(<<"/api/chat">>),
     Str(<<"/api/chat", "?x=1">>), Str(<<"/api/chat", "ty">>)}

IdleRequest ==
    [method |-> "GET", origin |-> Undefined, contentType |-> Undefined,
     body |-> UndefinedBody]

(* Two requests to the endpoint served at the same time. *)
InitTwoRequests ==
    /\ env \in {devDefaults(e) :
                  e \in [ALLOWED_ORIGINS : {Undefined},
                         OPENAI_API_KEY : {Undefined, Str(<<"sk">>)},
                         DEV_ALLOW_MOCK : {Str(<<"1">>)}]}
    /\ conns \in [Conns -> {NewConn(Str(<<"/api/chat">>), "POST",
                                    Str(<<"a">>), Str(<<"text/plain">>))}]

(* Every kind of request on connection 1, beside a request to another path. *)
InitOneRequest ==
    /\ env \in {devDefaults(e) :
                  e \in [ALLOWED_ORIGINS : {Undefined, Str(<<>>), Str(<<" ">>),
                                            Str(<<"a">>), Str(<<"A">>)},
                         OPENAI_API_KEY : {Undefined, Str(<<"sk">>)},
                         DEV_ALLOW_MOCK : {Undefined, Str(<<"1">>)}]}
    /\ \E url \in Urls, method \in {"OPTIONS", "POST"},
          o \in {Undefined, Str(<<"a">>)},
          contentType \in {Undefined, Str(<<"text/plain">>), Str(<<"application/json">>)} :
          conns = [c \in Conns |->
                     IF c = 1 THEN NewConn(url, method, o, contentType)
                     ELSE NewConn(Str(<<"/health">>), "GET", Undefined, Undefined)]

InitServer ==
    /\ InitLocals
    /\ req = IdleRequest
    /\ InitTwoRequests \/ InitOneRequest

NextServer ==
    \E c \in Conns :
        \/ Accept(c)
        \/ OnData(c, FALSE)
        \/ OnEnd(c, FALSE)
        \/ OnError(c)
        \/ BodyRejected(c)
        \/ BodyResolved(c)
        \/ UpstreamSettles(c)

SpecServer == InitServer /\ [][NextServer]_vars

NextServerAnyOrder ==
    \E c \in Conns :
        \/ Accept(c)
        \/ OnData(c, TRUE)
        \/ OnEnd(c, TRUE)
        \/ OnError(c)
        \/ BodyRejected(c)
        \/ BodyResolved(c)
        \/ UpstreamSettles(c)

(* Every kind of request on one connection, its events in every order. *)
InitAnyOrder ==
    /\ InitLocals
    /\ req = IdleRequest
    /\ InitOneRequest

SpecServerAnyOrder == InitAnyOrder /\ [][NextServerAnyOrder]_vars

(* ------------------------------- claims -------------------------------- *)

Reached(step) == \E i \in 1..Len(trace) : trace[i] = step

ConfiguredOrigins == parseAllowedOrigins(env.ALLOWED_ORIGINS)

Wildcard == Includes(ConfiguredOrigins, <<"*">>)

Listed == req.origin.def /\ Includes(ConfiguredOrigins, req.origin.val)

NoCompletion == upstreamCalls = 0 /\ mockReplies = 0 /\ ~Reached("complete")

Answered(code, msg) ==
    /\ res.statusCode = code
    /\ res.body.kind = "error"
    /\ res.body.error = msg
    /\ res.writes = 1

CorsHeadersSet ==
    /\ res.headers["Vary"] = Str(<<"Origin">>)
    /\ res.headers["Access-Control-Allow-Methods"] = Str(<<"POST, OPTIONS">>)
    /\ res.headers["Access-Control-Allow-Headers"] = Str(<<"Content-Type">>)
    /\ res.headers["Access-Control-Max-Age"] = Str(<<"86400">>)

(* C1: under every configuration and origin, an OPTIONS request only ever  *)
(* passes the CORS and method steps, ends with status 204 and an empty     *)
(* body with the CORS headers set, and reaches no configuration check, no  *)
(* body decoding and no completion.                                        *)
C1_PreflightShortCircuit ==
    req.method = "OPTIONS" =>
      /\ pc \in {"start", "method", "done"}
      /\ \A i \in 1..Len(trace) : trace[i] \in {"cors", "method"}
      /\ NoCompletion
      /\ res.writes > 0 => CorsHeadersSet
      /\ pc = "done" =>
           /\ trace = <<"cors", "method">>
           /\ res.statusCode = 204
           /\ res.body.kind = "empty"
           /\ res.writes = 1

C1_Witness ==
    /\ pc = "done"
    /\ req.method = "OPTIONS"
    /\ ConfiguredOrigins = <<>>
    /\ ~Truthy(env.OPENAI_API_KEY)
    /\ env.DEV_ALLOW_MOCK # Str(<<"1">>)
    /\ res.statusCode = 204

(* C2 as stated: under every non-wildcard allow-list, a request whose      *)
(* origin is absent or unlisted ends at 403 "Origin not allowed" and never *)
(* invokes the completion path.                                            *)
C2_Original ==
    (~Wildcard /\ ~Listed) =>
      /\ NoCompletion
      /\ pc = "done" => Answered(403, "Origin not allowed")

(* C2 amended: under every non-wildcard allow-list a request whose origin  *)
(* is absent or unlisted never invokes the completion path, and when the   *)
(* allow-list is not empty and the method is not OPTIONS it ends at 403    *)
(* "Origin not allowed".                                                   *)
C2_UnlistedOriginRejected ==
    (~Wildcard /\ ~Listed) =>
      /\ NoCompletion
      /\ (pc = "done" /\ req.method # "OPTIONS" /\ ConfiguredOrigins # <<>>) =>
           Answered(403, "Origin not allowed")

C2_Witness ==
    /\ pc = "done"
    /\ ~Wildcard
    /\ ConfiguredOrigins # <<>>
    /\ ~req.origin.def
    /\ req.method = "POST"
    /\ res.statusCode = 403

(* C3: under every allow-list containing the wildcard, the origin step     *)
(* never ends the request, whatever the origin header, and once the CORS   *)
(* headers are applied Access-Control-Allow-Origin is the literal "*".     *)
C3_WildcardAllowsAll ==
    Wildcard =>
      /\ pc # "start" => res.headers["Access-Control-Allow-Origin"] = Str(<<"*">>)
      /\ (pc = "done" /\ trace # <<>>) => trace[Len(trace)] # "origin"
      /\ ~(res.statusCode = 403 /\ res.body.error = "Origin not allowed")

C3_Witness ==
    /\ Wildcard
    /\ Len(ConfiguredOrigins) > 1
    /\ req.origin = Str(<<"A">>)
    /\ Reached("origin")
    /\ pc = "done"

(* C4: a non-OPTIONS request under an allow-list that parses to the empty  *)
(* list (unset, empty, only commas and whitespace) ends at 500 with the    *)
(* ALLOWED_ORIGINS misconfiguration error whatever its origin, before the  *)
(* origin step, so never at 403.                                           *)
OnlySeparators ==
    \/ ~env.ALLOWED_ORIGINS.def
    \/ \A i \in 1..Len(env.ALLOWED_ORIGINS.val) :
          env.ALLOWED_ORIGINS.val[i] \in {",", " "}

C4_EmptyAllowListIs500 ==
    (req.method # "OPTIONS" /\ OnlySeparators) =>
      /\ ~Reached("origin")
      /\ res.statusCode # 403
      /\ pc = "done" =>
           Answered(500, "Server misconfiguration: ALLOWED_ORIGINS is not set")

C4_Witness ==
    /\ pc = "done"
    /\ req.method = "POST"
    /\ env.ALLOWED_ORIGINS = Str(<<" ", ",", " ">>)
    /\ req.origin = Str(<<"a">>)
    /\ res.statusCode = 500

(* C5: the same request from a disallowed origin, handled under two       *)
(* configurations that differ only in the credential and the mock flag,    *)
(* gets the same status, headers and body, and its handling never reaches  *)
(* the credential step.                                                    *)
C5_DisallowedOriginLearnsNothing ==
    (~Wildcard /\ ~Listed) =>
      /\ ~Reached("credential")
      /\ (pc = "done" /\ prior.done) => res = prior.res

C5_Witness ==
    /\ pc = "done"
    /\ prior.done
    /\ ~Wildcard
    /\ ~Listed
    /\ ConfiguredOrigins # <<>>
    /\ req.method = "POST"
    /\ Truthy(prior.env.OPENAI_API_KEY) # Truthy(env.OPENAI_API_KEY)
    /\ res.statusCode = 403

(* C6: a non-OPTIONS request from an allowed origin, with no credential    *)
(* and DEV_ALLOW_MOCK other than "1", ends at 500 with the OPENAI_API_KEY  *)
(* misconfiguration error whatever its body, without decoding the body and *)
(* without a mock or live completion.                                      *)
C6_MissingCredentialIs500 ==
    (/\ req.method # "OPTIONS"
     /\ Wildcard \/ Listed
     /\ ~Truthy(env.OPENAI_API_KEY)
     /\ env.DEV_ALLOW_MOCK # Str(<<"1">>)) =>
      /\ ~Reached("decode")
      /\ pc \notin {"decode", "validate", "complete", "await", "respond", "catch"}
      /\ userText = <<>>
      /\ NoCompletion
      /\ pc = "done" =>
           Answered(500, "Server misconfiguration: OPENAI_API_KEY is not set")

C6_Witness ==
    /\ pc = "done"
    /\ req.method = "POST"
    /\ env.OPENAI_API_KEY = Str(<<>>)
    /\ env.DEV_ALLOW_MOCK = Str(<<"0">>)
    /\ req.body.t = "string"
    /\ req.body.d = "plain"
    /\ TextLen(req.body.text) > MaxTextLen
    /\ res.statusCode = 500

JsonContentType ==
    req.contentType \in {Str(<<"application/json">>),
                         Str(<<"Application/JSON", "; charset=utf-8">>),
                         Str(<<"multipart/related; type=", "application/json">>)}

OtherContentType ==
    req.contentType \in {Undefined, Str(<<>>), Str(<<"application/xml">>)}

InvalidJsonBody == req.body.t = "string" /\ req.body.d = "plain"

(* C7: a request past the configuration guard with content type           *)
(* application/json and a string body that is not valid JSON is answered   *)
(* 400 "Invalid request: text is required" and never reaches the catch-all *)
(* error handler.                                                          *)
C7_InvalidJsonIs400 ==
    (Reached("decode") /\ JsonContentType /\ InvalidJsonBody) =>
      /\ pc # "catch"
      /\ ~Reached("catch")
      /\ pc = "done" => Answered(400, "Invalid request: text is required")

(* C8: with a content type that is neither text/plain nor application/json *)
(* (or none), a string body that fails JSON parsing gives empty text and   *)
(* 400 "Invalid request: text is required"; the failure never reaches the  *)
(* catch-all error handler.                                                *)
C8_BestEffortParseFailureIs400 ==
    (Reached("decode") /\ OtherContentType /\ InvalidJsonBody) =>
      /\ pc # "catch"
      /\ ~Reached("catch")
      /\ userText = <<>>
      /\ NoCompletion
      /\ pc = "done" => Answered(400, "Invalid request: text is required")

C8_Witness ==
    /\ pc = "done"
    /\ req.contentType = Undefined
    /\ InvalidJsonBody
    /\ req.body.text = Ch(1)
    /\ res.statusCode = 400

(* C9: validation is decided on the trimmed text: length 0 ends at 400,    *)
(* length 1 to 8000 passes to the completion step, length 8001 or more     *)
(* ends at 413 "Payload too large: text exceeds 8000 characters"; a        *)
(* rejected request produces no completion.                                *)
C9_ValidationOnTrimmedText ==
    Reached("validate") =>
      LET n == TextLen(trim(decode(req.contentType, req.body).text))
      IN  /\ n = 0 =>
               /\ pc = "done"
               /\ NoCompletion
               /\ Answered(400, "Invalid request: text is required")
          /\ (n >= 1 /\ n <= 8000) => (pc = "complete" \/ Reached("complete"))
          /\ n >= 8001 =>
               /\ pc = "done"
               /\ NoCompletion
               /\ Answered(413, "Payload too large: text exceeds 8000 characters")

C9_Witness ==
    /\ Reached("complete")
    /\ TextLen(userText) = 8000
    /\ TextLen(decode(req.contentType, req.body).text) > 8000

(* C10: the provider is called at most once per request and never again    *)
(* after a failure, only for a non-OPTIONS request that passed every gate  *)
(* with a credential configured; the mock path is taken exactly when       *)
(* DEV_ALLOW_MOCK is "1" and no credential is configured, and it gives the *)
(* 200 reply without any provider call.                                    *)
C10_CompletionPath ==
    /\ upstreamCalls + mockReplies <= 1
    /\ upstreamCalls = 1 =>
         /\ req.method # "OPTIONS"
         /\ ConfiguredOrigins # <<>>
         /\ Wildcard \/ Listed
         /\ Truthy(env.OPENAI_API_KEY)
         /\ TextLen(userText) >= 1
         /\ TextLen(userText) <= 8000
         /\ SubSeq(trace, 1, 8) = <<"cors", "method", "allowlist", "origin",
                                    "credential", "decode", "validate", "complete">>
    /\ Reached("complete") =>
         /\ mockReplies = 1 <=>
              (env.DEV_ALLOW_MOCK = Str(<<"1">>) /\ ~Truthy(env.OPENAI_API_KEY))
         /\ upstreamCalls = 1 <=> Truthy(env.OPENAI_API_KEY)
    /\ mockReplies = 1 =>
         /\ pc \in {"respond", "done"}
         /\ ~Reached("returned")
         /\ ~Reached("threw")
         /\ content.kind = "mock"
         /\ pc = "done" =>
              /\ res.statusCode = 200
              /\ res.body = ContentBody(content)
              /\ res.writes = 1

C10_Witness ==
    /\ pc = "done"
    /\ upstreamCalls = 1
    /\ env.DEV_ALLOW_MOCK = Str(<<"1">>)
    /\ Truthy(env.OPENAI_API_KEY)
    /\ Reached("threw")

(* C11 as stated: two mock replies to the same input text are identical,   *)
(* and the reply ends in the truncation marker exactly when the input is   *)
(* longer than 180 characters.                                             *)
C11_Original ==
    (pc = "done" /\ mockReplies = 1) =>
      LET c == res.body.content
      IN  /\ (prior.done /\ prior.res.body.content.kind = "mock") =>
               res.body = prior.res.body
          /\ TextLen(userText) > 180 <=> c.tail[Len(c.tail)] = Ellipsis

(* C11 amended: two mock replies to the same input text are identical; the *)
(* reply is the fixed prefix, the preview (at most 180 characters, no      *)
(* whitespace run longer than one, no whitespace at either end), then the  *)
(* truncation marker exactly when the trimmed text is longer than 180      *)
(* characters, then the closing quote.                                     *)
C11_MockEcho ==
    (pc = "done" /\ mockReplies = 1) =>
      LET c == res.body.content
          n == TextLen(userText)
      IN  /\ (prior.done /\ prior.res.body.content.kind = "mock") =>
               res.body = prior.res.body
          /\ c.kind = "mock"
          /\ c.head = MockPrefix
          /\ TextLen(c.text) <= 180
          /\ \A i \in 1..Len(c.text) : c.text[i].k = "ws" => c.text[i].n = 1
          /\ c.text # <<>>
          /\ c.text[1].k = "ch"
          /\ c.text[Len(c.text)].k = "ch"
          /\ n <= 180 => (c.tail = <<Quote>> /\ TextLen(c.text) <= n)
          /\ n > 180 => c.tail = <<Ellipsis, Quote>>

C11_Witness ==
    /\ pc = "done"
    /\ mockReplies = 1
    /\ prior.done
    /\ prior.res.body.content.kind = "mock"
    /\ TextLen(userText) = 181
    /\ res.body.content.tail = <<Ellipsis, Quote>>

TextAnswer(cs, code, msg) ==
    /\ cs.res.statusCode = code
    /\ cs.res.body.kind = "text"
    /\ cs.res.body.error = msg
    /\ cs.res.writes = 1

TooLarge(cs) ==
    cs.promise.state = "rejected" /\ cs.promise.reason.status = [def |-> TRUE, val |-> 413]

C12_Ceiling ==
    \A c \in Conns :
      LET cs == conns[c]
      IN  /\ SumLen(cs.chunks) <= 1000000
          /\ TooLarge(cs) => cs.total > 1000000
          /\ cs.promise.state = "resolved" => TextLen(cs.promise.value) <= 1000000
          /\ cs.total > 1000000 =>
               /\ TooLarge(cs)
               /\ cs.destroyed
               /\ cs.handlerCalls = 0
               /\ cs.stage \in {"awaitBody", "finished"}
               /\ cs.stage = "finished" => TextAnswer(cs, 413, "Payload too large")

C12_NoLaterChunk ==
    \A c \in Conns : conns[c].total > 1000000 => conns'[c].chunks = conns[c].chunks

(* C12: the bytes buffered by readRequestBody never exceed 1,000,000; a    *)
(* body of exactly 1,000,000 bytes is not rejected; once the running total *)
(* exceeds the ceiling the read is rejected with a 413-tagged error, the   *)
(* connection is destroyed, no later chunk is buffered, the client is      *)
(* answered 413 and handler is never invoked for that request.             *)
C12_BodyCeiling == []C12_Ceiling /\ [][C12_NoLaterChunk]_vars

C12_Witness ==
    \E c \in Conns :
      /\ conns[c].chunks = <<Ch(1000000)>>
      /\ conns[c].nData = 2
      /\ conns[c].total = 1000001
      /\ conns[c].stage = "finished"
      /\ conns[c].res.statusCode = 413

ReadError(cs) ==
    cs.promise.state = "rejected" /\ ~cs.promise.reason.status.def

(* C13: a socket error without a status field while the body is read is   *)
(* answered 500 with a plain-text body, and handler is not invoked.        *)
C13_ReadErrorIs500 ==
    \A c \in Conns :
      ReadError(conns[c]) =>
        /\ conns[c].handlerCalls = 0
        /\ conns[c].stage = "finished" =>
             (conns[c].res.statusCode = 500 /\ conns[c].res.body.kind = "text"
              /\ conns[c].res.writes = 1)

OtherPath(cs) ==
    cs.url \in {Undefined, Str(<<"/">>), Str(<<"/api">>), Str(<<"/health">>)}

(* C16: a request whose URL does not start with /api/chat is answered 404  *)
(* before any of its body is read: no listener is attached, no byte is     *)
(* counted or buffered, and handler is not invoked.                        *)
C16_OtherPathIs404 ==
    \A c \in Conns :
      OtherPath(conns[c]) =>
        /\ ~conns[c].listening
        /\ conns[c].nData = 0
        /\ conns[c].total = 0
        /\ conns[c].chunks = <<>>
        /\ conns[c].promise = Pending
        /\ conns[c].handlerCalls = 0
        /\ conns[c].stage \in {"new", "finished"}
        /\ conns[c].stage = "finished" => TextAnswer(conns[c], 404, "Not Found")

C16_Witness ==
    /\ conns[1].url = Str(<<"/api">>)
    /\ conns[1].method = "POST"
    /\ conns[1].stage = "finished"
    /\ conns[1].res.statusCode = 404

Count(step) == Cardinality({i \in 1..Len(trace) : trace[i] = step})

Raised ==
    \/ Reached("decode") /\ decode(req.contentType, req.body).threw
    \/ Reached("threw")

(* C14: an exception raised after the configuration guard (by decoding or  *)
(* by the upstream call) is caught once and answered with exactly one JSON *)
(* error response: status = the error's status when present, else 500;     *)
(* text = the error's message when non-empty, else "Unknown error". The    *)
(* exception never leaves handler: once raised, the only next step is the  *)
(* catch-all.                                                              *)
C14_CaughtOnce ==
    /\ Raised => /\ Reached("credential")
                 /\ pc \in {"catch", "done"}
                 /\ Count("catch") = (IF pc = "done" THEN 1 ELSE 0)
    /\ Raised /\ pc = "catch" => res.writes = 0
    /\ Raised /\ pc = "done" =>
         Answered(IF err.status.def THEN err.status.val ELSE 500,
                  IF err.message = "" THEN "Unknown error" ELSE err.message)
    /\ ~Raised => ~Reached("catch") /\ pc # "catch"

C14_Witness ==
    /\ Reached("threw")
    /\ err.status = [def |-> TRUE, val |-> 429]
    /\ pc = "done"
    /\ res.statusCode = 429
    /\ res.body = ErrorBody("Rate limit exceeded")

(* C15: every response written by handler carries Vary,                    *)
(* Access-Control-Allow-Methods, Access-Control-Allow-Headers and          *)
(* Access-Control-Max-Age with their fixed values, and these headers are   *)
(* set by the first step, before the method check, the configuration       *)
(* checks and any status or body is written.                               *)
C15_CorsHeadersAlways ==
    /\ pc = "start" => trace = <<>> /\ res = NewResponse
    /\ pc # "start" => trace[1] = "cors" /\ CorsHeadersSet
    /\ res.writes > 0 => CorsHeadersSet

C15_Witness ==
    /\ res.writes = 1
    /\ res.statusCode = 403
    /\ ~req.origin.def
    /\ CorsHeadersSet

(* C17: a response with status 200 is the success response: it is written *)
(* only after the request passed every gate (not OPTIONS, non-empty        *)
(* allow-list, allowed origin, credential or mock, valid text) and the     *)
(* completion step succeeded; it carries { content }, Content-Type:        *)
(* application/json and Cache-Control: no-store. No other response carries *)
(* { content }.                                                            *)
C17_SuccessOnlyAfterGates ==
    /\ res.writes > 0 /\ res.statusCode = 200 =>
         /\ res.body = ContentBody(content)
         /\ res.headers["Content-Type"] = Str(<<"application/json">>)
         /\ res.headers["Cache-Control"] = Str(<<"no-store">>)
         /\ req.method # "OPTIONS"
         /\ ConfiguredOrigins # <<>>
         /\ Wildcard \/ Listed
         /\ Truthy(env.OPENAI_API_KEY) \/ env.DEV_ALLOW_MOCK = Str(<<"1">>)
         /\ userText # <<>>
         /\ TextLen(userText) <= 8000
         /\ trace = <<"cors", "method", "allowlist", "origin", "credential", "decode",
                      "validate", "complete", "respond">>
            \/ trace = <<"cors", "method", "allowlist", "origin", "credential", "decode",
                         "validate", "complete", "returned", "respond">>
         /\ ~Raised
    /\ res.body.kind = "content" => res.writes = 1 /\ res.statusCode = 200

C17_Witness ==
    /\ res.writes = 1
    /\ res.statusCode = 200
    /\ Reached("returned")
    /\ res.headers["Cache-Control"] = Str(<<"no-store">>)

(* C19: under an allow-list without the wildcard, from the first step on   *)
(* the response carries Access-Control-Allow-Origin exactly when the       *)
(* request's origin is present and listed, with that origin as its value;  *)
(* with an absent or unlisted origin, or an empty allow-list, the header   *)
(* is never set, also on OPTIONS.                                          *)
C19_AllowOriginOnlyWhenListed ==
    ~Wildcard =>
      /\ pc # "start" /\ Listed =>
           res.headers["Access-Control-Allow-Origin"] = Str(req.origin.val)
      /\ pc = "start" \/ ~Listed =>
           res.headers["Access-Control-Allow-Origin"] = Undefined

C19_Witness ==
    /\ ~Wildcard
    /\ Listed
    /\ req.method = "OPTIONS"
    /\ res.statusCode = 204
    /\ res.writes = 1
    /\ res.headers["Access-Control-Allow-Origin"] = Str(req.origin.val)

(* The steps a connection in state cs can take when it is served alone. *)
StepsAlone(cs, e) ==
    (IF cs.stage = "new" THEN {acceptStep(cs)} ELSE {})
    \cup (IF cs.listening /\ cs.nData < MaxChunks /\ ~cs.ended /\ ~cs.errored
          THEN {dataStep(cs, chunk) : chunk \in Chunks} ELSE {})
    \cup (IF cs.listening /\ ~cs.ended /\ ~cs.errored /\ ~cs.destroyed
          THEN {endStep(cs)} ELSE {})
    \cup (IF cs.listening /\ ~cs.errored
          THEN {errorStep(cs, x) : x \in SocketErrors} ELSE {})
    \cup (IF cs.stage = "awaitBody" /\ cs.promise.state = "rejected"
          THEN {bodyRejectedStep(cs)} ELSE {})
    \cup (IF cs.stage = "awaitBody" /\ cs.promise.state = "resolved"
          THEN {bodyResolvedStep(cs, e)} ELSE {})
    \cup (IF cs.stage = "awaitUpstream"
          THEN {upstreamStep(cs, outcome) : outcome \in UpstreamOutcomes} ELSE {})

(* The response to a body, as handler gives it to a single request. *)
ResponsesAlone(cs, e, body) ==
    LET h == handlerRun(e, reqLike(cs, body), NewResponse)
    IN  IF h.pc = "done" THEN {h.res}
        ELSE {handlerSettle(h.res, outcome) : outcome \in UpstreamOutcomes}

C18_OwnState ==
    \A c \in Conns :
      LET cs == conns[c]
      IN  /\ cs.total >= SumLen(cs.chunks)
          /\ cs.total <= 1000000 => cs.total = SumLen(cs.chunks)
          /\ cs.promise.state = "resolved" => cs.promise.value = ConcatAll(cs.chunks)
          /\ cs.handlerCalls = 1 => cs.handlerBody = ConcatAll(cs.chunks)
          /\ cs.stage = "finished" /\ cs.handlerCalls = 1 =>
               cs.res \in ResponsesAlone(cs, env, ConcatAll(cs.chunks))

C18_Frame ==
    /\ env' = env
    /\ \A c \in Conns :
         conns'[c] # conns[c] =>
           /\ \A d \in Conns \ {c} : conns'[d] = conns[d]
           /\ conns'[c] \in StepsAlone(conns[c], env)

(* C18: for every interleaving of two requests served by the harness, each *)
(* step changes one connection only and is a step that connection could    *)
(* take alone; a request's byte count is the length of what it received,   *)
(* its buffered body is the concatenation of its own accepted chunks, and  *)
(* its final response is the one handler gives to that body alone under    *)
(* the same configuration.                                                 *)
C18_Independent == []C18_OwnState /\ [][C18_Frame]_vars

C18_Witness ==
    /\ conns[1].stage = "finished"
    /\ conns[1].chunks = <<Ch(1000000)>>
    /\ conns[1].total = 1000001
    /\ conns[1].res.statusCode = 413
    /\ conns[2].stage = "finished"
    /\ conns[2].chunks = <<Ch(1)>>
    /\ conns[2].total = 1
    /\ conns[2].res.statusCode = 200
    /\ conns[2].res.body.kind = "content"

(* C20: in the harness, under any order of data, end and error events on   *)
(* a connection, at most one response is written and handler is invoked at *)
(* most once, only after the end event and only with a body within the     *)
(* byte ceiling; an invocation of handler has written nothing while it     *)
(* awaits the upstream call and exactly one response once it has finished, *)
(* on every path.                                                          *)
C20_OneResponse ==
    \A c \in Conns :
      LET cs == conns[c]
      IN  /\ cs.res.writes <= 1
          /\ cs.handlerCalls <= 1
          /\ cs.handlerCalls = 1 => cs.ended /\ TextLen(cs.handlerBody) <= 1000000
          /\ cs.stage \in {"new", "awaitBody"} => cs.handlerCalls = 0 /\ cs.res.writes = 0
          /\ cs.stage = "awaitUpstream" => cs.handlerCalls = 1 /\ cs.res.writes = 0
          /\ cs.stage = "finished" => cs.res.writes = 1

C20_Witness ==
    \E c \in Conns :
      /\ conns[c].ended
      /\ conns[c].errored
      /\ conns[c].chunks # <<>>
      /\ conns[c].handlerBody = <<>>
      /\ conns[c].handlerCalls = 1
      /\ conns[c].stage = "finished"
      /\ conns[c].res.writes = 1

====
